---- MODULE Spec2Model ----
(***************************************************************************)
(* Model of the retrying /apply-loan handler of the loan eligibility API   *)
(* (src/main.go, second program of the file, lines 287-634): one inbound   *)
(* request, the two sequential upstream calls with their retry loops, and  *)
(* the response written.                                                   *)
(*                                                                         *)
(* Units: loan amounts and salaries are whole currency units; a monthly    *)
(* payment is held in hundredths of a unit (the code rounds it to two      *)
(* decimals), so 4632.27 is the integer 463227.  Rates are percentages.    *)
(***************************************************************************)
EXTENDS Integers, Sequences, FiniteSets, TLC

VARIABLES
    req,        \* the inbound request: method, X-Request-ID header, body
    env,        \* the process environment read by os.Getenv
    pc,         \* where the handler is: "received", "salary", "credit", "done"
    reqID,      \* loanHandler's reqID
    request,    \* loanHandler's decoded LoanRequest
    annualRate, \* loanHandler's annualRate
    i,          \* loop counter of the running withRetry* call
    err,        \* err of the running withRetry* call
    salary,     \* loanHandler's salary (SalaryResponse)
    calls,      \* outbound upstream attempts issued so far, in order
    sleeps,     \* time.Sleep calls taken so far, in order (the dependency)
    resp,       \* the response written: status code, headers, body
    ctx,        \* the inbound request's context (r.Context()): cancelled or not
    clock,      \* the wall clock time.Now() reads, in nanoseconds
    inflight,   \* concurrent requests: each one's phase, header and correlation id
    engine      \* the decision rules applied on their own: inputs and reasons

handlerVars ==
    <<req, env, pc, reqID, request, annualRate, i, err, salary, calls, sleeps, resp>>

vars == <<req, env, pc, reqID, request, annualRate, i, err, salary, calls, sleeps, resp,
          ctx, clock, inflight, engine>>

-----------------------------------------------------------------------------
(* Bounds of the model *)

MaxTerm == 2
MaxAmount == 60
MaxClock == 3
NumRequests == 2

(* Program constants *)

attempts == 3
retryDelayMs == 250
defaultAnnualRate == 20
minCreditScore == 600
maxActiveLoans == 3
salaryMultiple == 3

StatusOK == 200
StatusBadRequest == 400
StatusNotFound == 404
StatusMethodNotAllowed == 405
StatusInternalServerError == 500
StatusBadGateway == 502

-----------------------------------------------------------------------------
(* Data types *)

NoKeys == [k \in {} |-> ""]

\* Go zero values of the structs
ZeroLoanRequest == [NationalID |-> "", LoanAmount |-> 0, TermMonths |-> 0]
ZeroSalaryResponse == [NationalID |-> "", MonthlySalary |-> 0]
ZeroCreditResponse ==
    [NationalID |-> "", CreditScore |-> 0, ActiveDefaults |-> 0, ActiveLoans |-> 0]

NilError == [kind |-> "nil"]
TransportError == [kind |-> "transport"]
DecodeError == [kind |-> "decode"]
httpError(code) == [kind |-> "http", StatusCode |-> code]

Itoa(n) ==
    CASE n = 404 -> "404"
      [] n = 500 -> "500"
      [] OTHER -> "?"

\* (e *httpError) Error(), and the text of the other errors
ErrorString(e) ==
    CASE e.kind = "http" -> "http error: " \o Itoa(e.StatusCode)
      [] e.kind = "transport" -> "transport error"
      [] e.kind = "decode" -> "json decode error"
      [] OTHER -> ""

-----------------------------------------------------------------------------
(* Finance *)

RECURSIVE GCD(_, _)
GCD(a, b) == IF b = 0 THEN a ELSE GCD(b, a % b)

RECURSIVE Pow(_, _)
Pow(b, n) == IF n = 0 THEN 1 ELSE b * Pow(b, n - 1)

\* math.Round(x*100)/100 for x = num/den >= 0, as a number of hundredths:
\* the nearest hundredth, halves rounded away from zero
RoundCents(num, den) ==
    LET scaled == 100 * num
        q == scaled \div den
        r == scaled % den
    IN  IF 2 * r >= den THEN q + 1 ELSE q

\* the straight-line branch cutting the quotient off instead of rounding it
amortizedMonthlyPayment_Truncates(loanAmount, termMonths, annualInterestPercent) ==
    IF termMonths <= 0 \/ loanAmount <= 0 THEN 0
    ELSE IF annualInterestPercent = 0 THEN (100 * loanAmount) \div termMonths
    ELSE LET g == GCD(annualInterestPercent, 1200)
             rn == annualInterestPercent \div g
             rd == 1200 \div g
             pn == Pow(rd + rn, termMonths)
             pd == Pow(rd, termMonths)
         IN  RoundCents(loanAmount * rn * pn, rd * (pn - pd))

\* monthlyRate = annualInterestPercent/100/12 is the fraction rn/rd, and
\* power = (1+monthlyRate)^termMonths is the fraction pn/pd, so that
\* p*(r*power)/(power-1) = p*rn*pn / (rd*(pn-pd))
amortizedMonthlyPayment(loanAmount, termMonths, annualInterestPercent) ==
    IF termMonths <= 0 \/ loanAmount <= 0 THEN 0
    ELSE IF annualInterestPercent = 0 THEN RoundCents(loanAmount, termMonths)
    ELSE LET g == GCD(annualInterestPercent, 1200)
             rn == annualInterestPercent \div g
             rd == 1200 \div g
             pn == Pow(rd + rn, termMonths)
             pd == Pow(rd, termMonths)
         IN  RoundCents(loanAmount * rn * pn, rd * (pn - pd))

-----------------------------------------------------------------------------
(* JSON and string conversions *)

\* the `json:"..."` tags of the structs
JsonTag(field) ==
    CASE field = "NationalID" -> "national_id"
      [] field = "LoanAmount" -> "loan_amount"
      [] field = "TermMonths" -> "term_months"
      [] field = "MonthlySalary" -> "monthly_salary"
      [] field = "CreditScore" -> "credit_score"
      [] field = "ActiveDefaults" -> "active_defaults"
      [] field = "ActiveLoans" -> "active_loans"

\* A body on the wire: json = FALSE is a body that is no JSON object of the
\* expected shape; otherwise fields maps the keys present to their values.
Malformed == [json |-> FALSE, fields |-> NoKeys]
JsonObject(f) == [json |-> TRUE, fields |-> f]

\* json.NewDecoder(body).Decode(&v) with v the zero value `zero`: a key that
\* is absent leaves the field at its zero value
Decode(body, zero) ==
    IF ~body.json THEN [v |-> zero, err |-> DecodeError]
    ELSE [v |-> [f \in DOMAIN zero |->
                    IF JsonTag(f) \in DOMAIN body.fields
                    THEN body.fields[JsonTag(f)] ELSE zero[f]],
          err |-> NilError]

\* json.Marshal of a struct without omitempty
Marshal(v) == [k \in {JsonTag(f) : f \in DOMAIN v} |->
                 LET f == CHOOSE g \in DOMAIN v : JsonTag(g) = k IN v[f]]

\* strconv.ParseFloat on the strings the environment may hold
ParseFloat(s) ==
    CASE s = "0" -> [f |-> 0, ok |-> TRUE]
      [] s = "120" -> [f |-> 120, ok |-> TRUE]
      [] OTHER -> [f |-> 0, ok |-> FALSE]

\* The LoanResponse struct; Nil stands for a nil pointer
Nil == [nil |-> TRUE]
LoanResponse(status, reason, reasons, monthly, annual, salaryEcho, creditEcho, appEcho) ==
    [Status |-> status, Reason |-> reason, Reasons |-> reasons,
     MonthlyPayment |-> monthly, AnnualInterest |-> annual,
     SalaryEcho |-> salaryEcho, CreditEcho |-> creditEcho, ApplicationEcho |-> appEcho]

\* json.NewEncoder(w).Encode(LoanResponse{...}): every field but status is
\* omitempty, so an empty string, an empty list, a zero number and a nil
\* pointer leave their key out of the body
EncodeLoanResponse(r) ==
    LET present ==
            {"status"}
            \cup (IF r.Reason # "" THEN {"reason"} ELSE {})
            \cup (IF Len(r.Reasons) > 0 THEN {"reasons"} ELSE {})
            \cup (IF r.MonthlyPayment # 0 THEN {"monthly_payment"} ELSE {})
            \cup (IF r.AnnualInterest # 0 THEN {"annual_interest_percent"} ELSE {})
            \cup (IF r.SalaryEcho # Nil THEN {"salary"} ELSE {})
            \cup (IF r.CreditEcho # Nil THEN {"credit"} ELSE {})
            \cup (IF r.ApplicationEcho # Nil THEN {"application"} ELSE {})
    IN  [k \in present |->
            CASE k = "status" -> r.Status
              [] k = "reason" -> r.Reason
              [] k = "reasons" -> r.Reasons
              [] k = "monthly_payment" -> r.MonthlyPayment
              [] k = "annual_interest_percent" -> r.AnnualInterest
              [] k = "salary" -> Marshal(r.SalaryEcho)
              [] k = "credit" -> Marshal(r.CreditEcho)
              [] k = "application" -> Marshal(r.ApplicationEcho)]

-----------------------------------------------------------------------------
(* Upstream client *)

\* What an upstream answers to one attempt: no answer at all (network
\* failure, timeout of httpClient), or a status code with a body
NoAnswer == [kind |-> "error"]
Answer(code, body) == [kind |-> "response", StatusCode |-> code, body |-> body]

\* callSalaryAPI after httpClient.Do(req) gave `reply`
\* callSalaryAPI dropping the error of Decode
callSalaryAPI_IgnoresDecodeError(reply) ==
    IF reply.kind = "error"
    THEN [v |-> ZeroSalaryResponse, err |-> TransportError]
    ELSE IF reply.StatusCode # StatusOK
    THEN [v |-> ZeroSalaryResponse, err |-> httpError(reply.StatusCode)]
    ELSE [v |-> Decode(reply.body, ZeroSalaryResponse).v, err |-> NilError]

callSalaryAPI(reply) ==
    IF reply.kind = "error"
    THEN [v |-> ZeroSalaryResponse, err |-> TransportError]
    ELSE IF reply.StatusCode # StatusOK
    THEN [v |-> ZeroSalaryResponse, err |-> httpError(reply.StatusCode)]
    ELSE LET d == Decode(reply.body, ZeroSalaryResponse)
         IN  IF d.err # NilError
             THEN [v |-> ZeroSalaryResponse, err |-> d.err]
             ELSE [v |-> d.v, err |-> NilError]

\* callCreditAPI after httpClient.Do(req) gave `reply`
callCreditAPI(reply) ==
    IF reply.kind = "error"
    THEN [v |-> ZeroCreditResponse, err |-> TransportError]
    ELSE IF reply.StatusCode # StatusOK
    THEN [v |-> ZeroCreditResponse, err |-> httpError(reply.StatusCode)]
    ELSE LET d == Decode(reply.body, ZeroCreditResponse)
         IN  IF d.err # NilError
             THEN [v |-> ZeroCreditResponse, err |-> d.err]
             ELSE [v |-> d.v, err |-> NilError]

\* the retry loop running one attempt more than `attempts`
withRetryStep_OneMoreAttempt(iter, res, zero) ==
    IF res.err = NilError
    THEN [returned |-> TRUE, v |-> res.v, err |-> NilError, i |-> iter, slept |-> FALSE]
    ELSE [returned |-> ~(iter + 1 < attempts + 1), v |-> zero, err |-> res.err,
          i |-> iter + 1, slept |-> TRUE]

\* One iteration of the loop of withRetrySalary / withRetryCredit, entered
\* with loop counter `iter`, where fn() returned `res`: a nil error returns
\* at once; any other error sleeps, counts the attempt, and returns the zero
\* value with that error when the loop condition i < attempts fails
withRetryStep(iter, res, zero) ==
    IF res.err = NilError
    THEN [returned |-> TRUE, v |-> res.v, err |-> NilError, i |-> iter, slept |-> FALSE]
    ELSE [returned |-> ~(iter + 1 < attempts), v |-> zero, err |-> res.err,
          i |-> iter + 1, slept |-> TRUE]

\* the request one attempt puts on the wire, with the answer it got
OutboundCall(dep, baseURL, nationalID, id, reply) ==
    [dep |-> dep, url |-> baseURL, body |-> [national_id |-> nationalID],
     reqID |-> id, reply |-> reply]

-----------------------------------------------------------------------------
(* Responses *)

NoResponse == [code |-> 0, headers |-> NoKeys, body |-> NoKeys]

\* w.Header().Set(name, value)
SetHeader(headers, name, value) == (name :> value) @@ headers

\* http.Error(w, msg, code): a plain-text body
httpErrorResponse(headers, msg, code) ==
    [code |-> code,
     headers |-> SetHeader(headers, "Content-Type", "text/plain; charset=utf-8"),
     body |-> [plain |-> msg]]

\* a JSON body written with status `code`
JsonResponse(headers, code, body) ==
    [code |-> code,
     headers |-> SetHeader(headers, "Content-Type", "application/json"),
     body |-> body]

\* a correlation id always generated, whatever the client sent
getOrCreateReqID_IgnoresHeader(r, now) == now

\* getOrCreateReqID: `now` is strconv.FormatInt(time.Now().UnixNano(), 36)
getOrCreateReqID(r, now) == IF r.header = "" THEN now ELSE r.header

\* the decision rules with the defaults rule left out
DecisionReasons_NoDefaultsRule(sal, cred, monthly) ==
    LET r0 == <<>>
        r1 == IF 100 * sal.MonthlySalary < salaryMultiple * monthly
              THEN Append(r0, "Monthly salary is less than 3x the amortized monthly repayment")
              ELSE r0
        r2 == IF cred.CreditScore < minCreditScore
              THEN Append(r1, "Credit score below 600") ELSE r1
        r4 == IF cred.ActiveLoans > maxActiveLoans
              THEN Append(r2, "More than 3 active loans") ELSE r2
    IN  r4

\* the decision rules with the score rule checked after the defaults rule
DecisionReasons_ScoreAfterDefaults(sal, cred, monthly) ==
    LET r0 == <<>>
        r1 == IF 100 * sal.MonthlySalary < salaryMultiple * monthly
              THEN Append(r0, "Monthly salary is less than 3x the amortized monthly repayment")
              ELSE r0
        r2 == IF cred.ActiveDefaults > 0
              THEN Append(r1, "Active defaults present") ELSE r1
        r3 == IF cred.CreditScore < minCreditScore
              THEN Append(r2, "Credit score below 600") ELSE r2
        r4 == IF cred.ActiveLoans > maxActiveLoans
              THEN Append(r3, "More than 3 active loans") ELSE r3
    IN  r4

\* the decision rules, appended in sequence
\* the decision rules with the defaults rule overwriting the list
DecisionReasons_DefaultsReplace(sal, cred, monthly) ==
    LET r0 == <<>>
        r1 == IF 100 * sal.MonthlySalary < salaryMultiple * monthly
              THEN Append(r0, "Monthly salary is less than 3x the amortized monthly repayment")
              ELSE r0
        r2 == IF cred.CreditScore < minCreditScore
              THEN Append(r1, "Credit score below 600") ELSE r1
        r3 == IF cred.ActiveDefaults > 0
              THEN <<"Active defaults present">> ELSE r2
        r4 == IF cred.ActiveLoans > maxActiveLoans
              THEN Append(r3, "More than 3 active loans") ELSE r3
    IN  r4

DecisionReasons(sal, cred, monthly) ==
    LET r0 == <<>>
        r1 == IF 100 * sal.MonthlySalary < salaryMultiple * monthly
              THEN Append(r0, "Monthly salary is less than 3x the amortized monthly repayment")
              ELSE r0
        r2 == IF cred.CreditScore < minCreditScore
              THEN Append(r1, "Credit score below 600") ELSE r1
        r3 == IF cred.ActiveDefaults > 0
              THEN Append(r2, "Active defaults present") ELSE r2
        r4 == IF cred.ActiveLoans > maxActiveLoans
              THEN Append(r3, "More than 3 active loans") ELSE r3
    IN  r4

\* the salary failure branch taking every HTTP error status for a 404
SalaryFailureResponse_AnyStatusDeclines(headers, e, app, rate, id) ==
    IF e.kind = "http"
    THEN LET monthly == amortizedMonthlyPayment(app.LoanAmount, app.TermMonths, rate)
             reasons == <<"Salary record not found">>
         IN  JsonResponse(headers, StatusOK,
                 EncodeLoanResponse(LoanResponse("DECLINED", reasons[1], reasons,
                     monthly, rate, Nil, Nil, app)))
    ELSE JsonResponse(headers, StatusBadGateway,
             [error |-> "salary_service_unavailable",
              message |-> "Failed to verify salary",
              detail |-> ErrorString(e),
              request_id |-> id])

\* loanHandler's answer when the salary call returned the error e
SalaryFailureResponse(headers, e, app, rate, id) ==
    IF e.kind = "http" /\ e.StatusCode = StatusNotFound
    THEN LET monthly == amortizedMonthlyPayment(app.LoanAmount, app.TermMonths, rate)
             reasons == <<"Salary record not found">>
         IN  JsonResponse(headers, StatusOK,
                 EncodeLoanResponse(LoanResponse("DECLINED", reasons[1], reasons,
                     monthly, rate, Nil, Nil, app)))
    ELSE JsonResponse(headers, StatusBadGateway,
             [error |-> "salary_service_unavailable",
              message |-> "Failed to verify salary",
              detail |-> ErrorString(e),
              request_id |-> id])

\* loanHandler's answer when the credit call returned the error e
CreditFailureResponse(headers, e, app, rate, id, sal) ==
    IF e.kind = "http" /\ e.StatusCode = StatusNotFound
    THEN LET monthly == amortizedMonthlyPayment(app.LoanAmount, app.TermMonths, rate)
             reasons == <<"Credit record not found">>
         IN  JsonResponse(headers, StatusOK,
                 EncodeLoanResponse(LoanResponse("DECLINED", reasons[1], reasons,
                     monthly, rate, sal, Nil, app)))
    ELSE JsonResponse(headers, StatusBadGateway,
             [error |-> "credit_service_unavailable",
              message |-> "Failed to verify credit",
              detail |-> ErrorString(e),
              request_id |-> id])

\* the final response with the last reason taken for the primary one
DecisionResponse_ReasonIsLast(headers, app, rate, sal, cred) ==
    LET monthly == amortizedMonthlyPayment(app.LoanAmount, app.TermMonths, rate)
        reasons == DecisionReasons(sal, cred, monthly)
    IN  IF Len(reasons) > 0
        THEN JsonResponse(headers, StatusOK,
                 EncodeLoanResponse(LoanResponse("DECLINED", reasons[Len(reasons)], reasons,
                     monthly, rate, sal, cred, app)))
        ELSE JsonResponse(headers, StatusOK,
                 EncodeLoanResponse(LoanResponse("APPROVED", "", <<>>,
                     monthly, rate, sal, cred, app)))

\* the decision taking the correlation id for one more reason
DecisionResponse_IdAmongReasons(headers, app, rate, sal, cred) ==
    LET monthly == amortizedMonthlyPayment(app.LoanAmount, app.TermMonths, rate)
        reasons == Append(DecisionReasons(sal, cred, monthly), headers["X-Request-ID"])
    IN  JsonResponse(headers, StatusOK,
            EncodeLoanResponse(LoanResponse("DECLINED", reasons[1], reasons,
                monthly, rate, sal, cred, app)))

\* loanHandler's answer once both facts are known
DecisionResponse(headers, app, rate, sal, cred) ==
    LET monthly == amortizedMonthlyPayment(app.LoanAmount, app.TermMonths, rate)
        reasons == DecisionReasons(sal, cred, monthly)
    IN  IF Len(reasons) > 0
        THEN JsonResponse(headers, StatusOK,
                 EncodeLoanResponse(LoanResponse("DECLINED", reasons[1], reasons,
                     monthly, rate, sal, cred, app)))
        ELSE JsonResponse(headers, StatusOK,
                 EncodeLoanResponse(LoanResponse("APPROVED", "", <<>>,
                     monthly, rate, sal, cred, app)))

\* the annual rate loanHandler takes from ANNUAL_INTEREST_PERCENT
ConfiguredRate(v) ==
    IF v # "" /\ ParseFloat(v).ok THEN ParseFloat(v).f ELSE defaultAnnualRate

\* the validation of the decoded request
InvalidFields_NoTermCheck(app) ==
    app.NationalID = "" \/ app.LoanAmount <= 0

InvalidFields(app) ==
    app.NationalID = "" \/ app.LoanAmount <= 0 \/ app.TermMonths <= 0

\* the configuration check on the two upstream base URLs
ConfigMissing_SalaryOnly(salaryURL, creditURL) == salaryURL = ""

ConfigMissing(salaryURL, creditURL) == salaryURL = "" \/ creditURL = ""

\* `if err != nil` after a retried call
CallFailed_HttpOnly(e) == e.kind = "http"

CallFailed(e) == e # NilError

-----------------------------------------------------------------------------
(* Inputs *)

Methods == {"GET", "POST"}
RequestIDHeaders == {"", "client-7"}
ClockIDs == {"k3f9a1"}
NationalIDs == {"", "12345678"}
Amounts == {-1, 0, MaxAmount}
Terms == -1 .. MaxTerm

RequestBodies ==
    {Malformed, JsonObject(NoKeys), JsonObject([national_id |-> "12345678"])}
    \cup {JsonObject([national_id |-> n, loan_amount |-> a, term_months |-> t]) :
            n \in NationalIDs, a \in Amounts, t \in Terms}

Requests == [method : Methods, header : RequestIDHeaders, body : RequestBodies]

Envs == [SALARY_API_URL : {"", "http://salary"},
         CREDIT_API_URL : {"", "http://credit"},
         ANNUAL_INTEREST_PERCENT : {"", "0", "abc"}]

Salaries == {1, 100}
CreditScores == {599, 600}
DefaultCounts == {0, 1}
LoanCounts == {3, 4}

FailureReplies ==
    {NoAnswer, Answer(StatusNotFound, Malformed),
     Answer(StatusInternalServerError, Malformed), Answer(StatusOK, Malformed)}

SalaryReplies ==
    FailureReplies
    \cup {Answer(StatusOK, JsonObject(NoKeys))}
    \cup {Answer(StatusOK, JsonObject([national_id |-> "12345678", monthly_salary |-> m])) :
            m \in Salaries}

CreditReplies ==
    FailureReplies
    \cup {Answer(StatusOK, JsonObject(NoKeys))}
    \cup {Answer(StatusOK, JsonObject([national_id |-> "12345678", credit_score |-> sc,
                                       active_defaults |-> d, active_loans |-> l])) :
            sc \in CreditScores, d \in DefaultCounts, l \in LoanCounts}

-----------------------------------------------------------------------------
(* The handler *)

\* the context of a request whose client is still connected
LiveContext == [done |-> FALSE, callsBefore |-> 0, betweenAttempts |-> FALSE]

\* no other request in flight, the decision rules not exercised on their own
NoneInFlight == [r \in {} |-> ""]
IdleEngine == [stage |-> "idle"]

Init ==
    /\ ctx = LiveContext
    /\ clock = 0
    /\ inflight = NoneInFlight
    /\ engine = IdleEngine
    /\ req \in Requests
    /\ env \in Envs
    /\ pc = "received"
    /\ reqID = ""
    /\ request = ZeroLoanRequest
    /\ annualRate = 0
    /\ i = 0
    /\ err = NilError
    /\ salary = ZeroSalaryResponse
    /\ calls = <<>>
    /\ sleeps = <<>>
    /\ resp = NoResponse

\* loanHandler reading the configuration before it decodes and validates
HandleRequest_ConfigFirst ==
    /\ pc = "received"
    /\ \E now \in ClockIDs :
        LET id == getOrCreateReqID(req, now)
            headers == SetHeader(NoKeys, "X-Request-ID", id)
            dec == Decode(req.body, ZeroLoanRequest)
            rate == ConfiguredRate(env.ANNUAL_INTEREST_PERCENT)
        IN  IF req.method # "POST"
            THEN /\ resp' = httpErrorResponse(NoKeys, "Only POST requests allowed",
                                              StatusMethodNotAllowed)
                 /\ pc' = "done"
                 /\ UNCHANGED <<reqID, request, annualRate>>
            ELSE IF ConfigMissing(env.SALARY_API_URL, env.CREDIT_API_URL)
            THEN /\ resp' = JsonResponse(headers, StatusInternalServerError,
                                [error |-> "config_error",
                                 message |-> "Service URLs not configured",
                                 request_id |-> id])
                 /\ pc' = "done"
                 /\ reqID' = id
                 /\ annualRate' = rate
                 /\ UNCHANGED request
            ELSE IF dec.err # NilError
            THEN /\ resp' = httpErrorResponse(headers, "Invalid request body", StatusBadRequest)
                 /\ pc' = "done"
                 /\ reqID' = id
                 /\ UNCHANGED <<request, annualRate>>
            ELSE IF InvalidFields(dec.v)
            THEN /\ resp' = httpErrorResponse(headers, "Missing or invalid fields",
                                              StatusBadRequest)
                 /\ pc' = "done"
                 /\ reqID' = id
                 /\ request' = dec.v
                 /\ annualRate' = rate
            ELSE /\ resp' = resp
                 /\ pc' = "salary"
                 /\ reqID' = id
                 /\ request' = dec.v
                 /\ annualRate' = rate
    /\ UNCHANGED <<req, env, i, err, salary, calls, sleeps>>
    /\ UNCHANGED <<ctx, clock, inflight, engine>>

\* loanHandler from its entry to the first upstream call: method check,
\* correlation id, decoding, validation, configuration
HandleRequest ==
    /\ pc = "received"
    /\ \E now \in ClockIDs :
        LET id == getOrCreateReqID(req, now)
            headers == SetHeader(NoKeys, "X-Request-ID", id)
            dec == Decode(req.body, ZeroLoanRequest)
            rate == ConfiguredRate(env.ANNUAL_INTEREST_PERCENT)
        IN  IF req.method # "POST"
            THEN /\ resp' = httpErrorResponse(NoKeys, "Only POST requests allowed",
                                              StatusMethodNotAllowed)
                 /\ pc' = "done"
                 /\ UNCHANGED <<reqID, request, annualRate>>
            ELSE IF dec.err # NilError
            THEN /\ resp' = httpErrorResponse(headers, "Invalid request body", StatusBadRequest)
                 /\ pc' = "done"
                 /\ reqID' = id
                 /\ UNCHANGED <<request, annualRate>>
            ELSE IF InvalidFields(dec.v)
            THEN /\ resp' = httpErrorResponse(headers, "Missing or invalid fields",
                                              StatusBadRequest)
                 /\ pc' = "done"
                 /\ reqID' = id
                 /\ request' = dec.v
                 /\ UNCHANGED annualRate
            ELSE IF ConfigMissing(env.SALARY_API_URL, env.CREDIT_API_URL)
            THEN /\ resp' = JsonResponse(headers, StatusInternalServerError,
                                [error |-> "config_error",
                                 message |-> "Service URLs not configured",
                                 request_id |-> id])
                 /\ pc' = "done"
                 /\ reqID' = id
                 /\ request' = dec.v
                 /\ annualRate' = rate
            ELSE /\ resp' = resp
                 /\ pc' = "salary"
                 /\ reqID' = id
                 /\ request' = dec.v
                 /\ annualRate' = rate
    /\ UNCHANGED <<req, env, i, err, salary, calls, sleeps>>
    /\ UNCHANGED <<ctx, clock, inflight, engine>>

\* One attempt of withRetrySalary(3, 250ms, callSalaryAPI); when the loop
\* returns, loanHandler goes on in the same step: it answers the failure or
\* starts the credit call
SalaryAttempt(reply) ==
    /\ pc = "salary"
    /\ LET st == withRetryStep(i, callSalaryAPI(reply), ZeroSalaryResponse)
           headers == SetHeader(NoKeys, "X-Request-ID", reqID)
       IN  /\ calls' = Append(calls, OutboundCall("salary", env.SALARY_API_URL,
                                                  request.NationalID, reqID, reply))
           /\ sleeps' = IF st.slept THEN Append(sleeps, [dep |-> "salary", ms |-> retryDelayMs]) ELSE sleeps
           /\ IF ~st.returned
              THEN /\ i' = st.i
                   /\ err' = st.err
                   /\ UNCHANGED <<pc, salary, resp>>
              ELSE IF CallFailed(st.err)
              THEN /\ resp' = SalaryFailureResponse(headers, st.err, request, annualRate, reqID)
                   /\ pc' = "done"
                   /\ i' = st.i
                   /\ err' = st.err
                   /\ UNCHANGED salary
              ELSE /\ salary' = st.v
                   /\ pc' = "credit"
                   /\ i' = 0
                   /\ err' = NilError
                   /\ UNCHANGED resp
    /\ UNCHANGED <<req, env, reqID, request, annualRate>>
    /\ UNCHANGED <<ctx, clock, inflight, engine>>

\* One attempt of withRetryCredit(3, 250ms, callCreditAPI); when the loop
\* returns, loanHandler answers: the failure, or the decision
CreditAttempt(reply) ==
    /\ pc = "credit"
    /\ LET st == withRetryStep(i, callCreditAPI(reply), ZeroCreditResponse)
           headers == SetHeader(NoKeys, "X-Request-ID", reqID)
       IN  /\ calls' = Append(calls, OutboundCall("credit", env.CREDIT_API_URL,
                                                  request.NationalID, reqID, reply))
           /\ sleeps' = IF st.slept THEN Append(sleeps, [dep |-> "credit", ms |-> retryDelayMs]) ELSE sleeps
           /\ IF ~st.returned
              THEN /\ i' = st.i
                   /\ err' = st.err
                   /\ UNCHANGED <<pc, resp>>
              ELSE IF CallFailed(st.err)
              THEN /\ resp' = CreditFailureResponse(headers, st.err, request, annualRate,
                                                    reqID, salary)
                   /\ pc' = "done"
                   /\ i' = st.i
                   /\ err' = st.err
              ELSE /\ resp' = DecisionResponse(headers, request, annualRate, salary, st.v)
                   /\ pc' = "done"
                   /\ i' = st.i
                   /\ err' = NilError
    /\ UNCHANGED <<req, env, reqID, request, annualRate, salary>>
    /\ UNCHANGED <<ctx, clock, inflight, engine>>

Next ==
    \/ HandleRequest
    \/ \E reply \in SalaryReplies : SalaryAttempt(reply)
    \/ \E reply \in CreditReplies : CreditAttempt(reply)

Spec == Init /\ [][Next]_vars

-----------------------------------------------------------------------------
(* Vocabulary of the properties *)

Last(seq) == seq[Len(seq)]

\* the attempts issued to one dependency, in order
CallsTo(dep) == SelectSeq(calls, LAMBDA c : c.dep = dep)

\* The three-way classification of one attempt's answer: Success is a 200
\* with a well-formed body, NotFound is a 404, everything else Unavailable
Outcome(reply) ==
    IF reply.kind = "response" /\ reply.StatusCode = StatusNotFound THEN "NotFound"
    ELSE IF reply.kind = "response" /\ reply.StatusCode = StatusOK /\ reply.body.json
    THEN "Success"
    ELSE "Unavailable"

\* a number an upstream's 200 body carries under `key` (0 when absent)
Fact(reply, key) ==
    IF key \in DOMAIN reply.body.fields THEN reply.body.fields[key] ELSE 0

\* a string an upstream's 200 body carries under `key` ("" when absent)
FactText(reply, key) ==
    IF key \in DOMAIN reply.body.fields THEN reply.body.fields[key] ELSE ""

EndedIn(dep, outcome) ==
    /\ CallsTo(dep) # <<>>
    /\ Outcome(Last(CallsTo(dep)).reply) = outcome

Answered(dep, outcome) ==
    \E k \in 1 .. Len(calls) : calls[k].dep = dep /\ Outcome(calls[k].reply) = outcome

\* the inbound request as sent: parsable, with every field valid
ValidInput ==
    /\ req.method = "POST"
    /\ req.body.json
    /\ {"national_id", "loan_amount", "term_months"} \subseteq DOMAIN req.body.fields
    /\ req.body.fields.national_id # ""
    /\ req.body.fields.loan_amount > 0
    /\ req.body.fields.term_months > 0

Configured == env.SALARY_API_URL # "" /\ env.CREDIT_API_URL # ""

\* the rate in force: ANNUAL_INTEREST_PERCENT when it parses, else 20
RateInForce ==
    CASE env.ANNUAL_INTEREST_PERCENT = "0" -> 0
      [] env.ANNUAL_INTEREST_PERCENT = "120" -> 120
      [] OTHER -> 20

\* the payment for the amount and term the client asked for
RequestedPayment ==
    amortizedMonthlyPayment(req.body.fields.loan_amount, req.body.fields.term_months,
                            RateInForce)

Responded == pc = "done"

IsBusiness(status) ==
    /\ Responded
    /\ "status" \in DOMAIN resp.body
    /\ resp.body.status = status

ResponseReasons == IF "reasons" \in DOMAIN resp.body THEN resp.body.reasons ELSE <<>>

\* the response of PartialDecline(dep)
IsPartialDecline(reason) ==
    /\ resp.code = StatusOK
    /\ IsBusiness("DECLINED")
    /\ ResponseReasons = <<reason>>
    /\ "credit" \notin DOMAIN resp.body
    /\ "monthly_payment" \in DOMAIN resp.body
    /\ resp.body.monthly_payment = RequestedPayment

-----------------------------------------------------------------------------
(* C1: in the retrying handler an upstream attempt answered 404 is never   *)
(* retried: once an attempt to a dependency is answered NotFound, no later *)
(* attempt is issued to that dependency for the request.                   *)
C1_NotFoundNeverRetried ==
    \A k \in 1 .. Len(calls) :
        Outcome(calls[k].reply) = "NotFound"
            => \A j \in (k + 1) .. Len(calls) : calls[j].dep # calls[k].dep

(* C2: for a valid, configured request, once any salary attempt has been   *)
(* answered NotFound the request has terminated in PartialDecline(salary): *)
(* HTTP 200, DECLINED, reasons exactly ["Salary record not found"], no     *)
(* salary and no credit field, monthly_payment computed from the requested *)
(* amount and term, whatever later attempts would be answered.             *)
C2_SalaryNotFoundDeclines ==
    (ValidInput /\ Configured /\ Responded /\ Answered("salary", "NotFound"))
        => /\ IsPartialDecline("Salary record not found")
           /\ "salary" \notin DOMAIN resp.body

-----------------------------------------------------------------------------
(* Facts and rules, as the properties speak of them *)

Deps == {"salary", "credit"}

SalaryFact == Fact(Last(CallsTo("salary")).reply, "monthly_salary")
ScoreFact == Fact(Last(CallsTo("credit")).reply, "credit_score")
DefaultsFact == Fact(Last(CallsTo("credit")).reply, "active_defaults")
LoansFact == Fact(Last(CallsTo("credit")).reply, "active_loans")

BothResolved == EndedIn("salary", "Success") /\ EndedIn("credit", "Success")

RuleReasons ==
    <<"Monthly salary is less than 3x the amortized monthly repayment",
      "Credit score below 600",
      "Active defaults present",
      "More than 3 active loans">>

\* the condition of the rule whose reason is r (payments are in hundredths)
RuleViolated(r) ==
    CASE r = RuleReasons[1] -> 100 * SalaryFact < 3 * RequestedPayment
      [] r = RuleReasons[2] -> ScoreFact < 600
      [] r = RuleReasons[3] -> DefaultsFact > 0
      [] r = RuleReasons[4] -> LoansFact > 3

ExpectedReasons == SelectSeq(RuleReasons, RuleViolated)

IsRuleBased ==
    \E k \in 1 .. Len(ResponseReasons) :
        \E n \in 1 .. Len(RuleReasons) : ResponseReasons[k] = RuleReasons[n]

(* C3: an APPROVED or rule-based DECLINED response is produced only when   *)
(* both the salary call and the credit call ended in Success; APPROVED is  *)
(* emitted only if, in addition, none of the four rule conditions is true. *)
C3_DecisionNeedsBothFacts ==
    /\ (IsBusiness("APPROVED") \/ (IsBusiness("DECLINED") /\ IsRuleBased)) => BothResolved
    /\ IsBusiness("APPROVED")
          => BothResolved /\ \A n \in 1 .. Len(RuleReasons) : ~RuleViolated(RuleReasons[n])

\* an approval reached after retries on both dependencies
C3_Witness ==
    /\ IsBusiness("APPROVED")
    /\ Len(CallsTo("salary")) > 1
    /\ Len(CallsTo("credit")) > 1

FailureText(reply) ==
    IF reply.kind = "error" THEN "transport error"
    ELSE IF reply.StatusCode = 200 THEN "json decode error"
    ELSE IF reply.StatusCode = 404 THEN "http error: 404"
    ELSE "http error: 500"

(* C5: each dependency gets at most 3 attempts per request; an attempt     *)
(* after the first is made only after an Unavailable outcome; the first    *)
(* Success ends the loop; and when all 3 attempts are Unavailable the      *)
(* failure of the last attempt is the one surfaced in the response.        *)
C5_BoundedRetryOfUnavailable ==
    \A d \in Deps :
        LET s == CallsTo(d)
        IN  /\ Len(s) <= 3
            /\ \A k \in 2 .. Len(s) : Outcome(s[k - 1].reply) = "Unavailable"
            /\ \A k \in 1 .. Len(s) : Outcome(s[k].reply) = "Success" => k = Len(s)
            /\ (/\ Responded
                /\ Len(s) = 3
                /\ \A k \in 1 .. 3 : Outcome(s[k].reply) = "Unavailable")
                  => /\ resp.code = StatusBadGateway
                     /\ resp.body.detail = FailureText(s[3].reply)

ServiceUnavailable(d) ==
    IF d = "salary" THEN "salary_service_unavailable" ELSE "credit_service_unavailable"

NotFoundReason(d) ==
    IF d = "salary" THEN "Salary record not found" ELSE "Credit record not found"

(* C6: when a dependency's call ends Unavailable after the retries, the    *)
(* response is HTTP 502 with the error naming that dependency and carries  *)
(* no status, reason or reasons; and a DECLINED response with a "record    *)
(* not found" reason is produced only when that upstream answered 404 to   *)
(* the attempt that ended the call.                                        *)
C6_FailuresAreNotDeclines ==
    \A d \in Deps :
        /\ (Responded /\ EndedIn(d, "Unavailable"))
              => /\ Len(CallsTo(d)) = attempts
                 /\ resp.code = StatusBadGateway
                 /\ resp.body.error = ServiceUnavailable(d)
                 /\ DOMAIN resp.body \cap {"status", "reason", "reasons"} = {}
        /\ (/\ IsBusiness("DECLINED")
            /\ \E k \in 1 .. Len(ResponseReasons) : ResponseReasons[k] = NotFoundReason(d))
              => /\ EndedIn(d, "NotFound")
                 /\ Last(calls).dep = d

\* a credit call that was answered 404 once and still ended Unavailable
C6_Witness ==
    /\ Responded
    /\ Answered("credit", "NotFound")
    /\ EndedIn("credit", "Unavailable")
    /\ resp.code = StatusBadGateway

(* C7: when the salary call succeeded and the credit call is answered      *)
(* NotFound, the request terminates DECLINED with reasons exactly          *)
(* ["Credit record not found"], the salary fact included exactly as        *)
(* resolved, and no credit fact.                                           *)
C7_CreditNotFoundDeclines ==
    (Responded /\ EndedIn("salary", "Success") /\ Answered("credit", "NotFound"))
        => /\ IsPartialDecline("Credit record not found")
           /\ "salary" \in DOMAIN resp.body
           /\ resp.body.salary =
                 [national_id |-> FactText(Last(CallsTo("salary")).reply, "national_id"),
                  monthly_salary |-> SalaryFact]

\* a POST whose body does not parse or fails the field validation
InvalidInput == req.method = "POST" /\ ~ValidInput

(* C8: a POST whose body does not parse, or whose national_id is empty,    *)
(* loan_amount <= 0 or term_months <= 0, is answered HTTP 400 and ends     *)
(* with zero upstream calls and no decision.                               *)
C8_InvalidRequestRejected ==
    InvalidInput
        => /\ calls = <<>>
           /\ pc \in {"received", "done"}
           /\ Responded => /\ resp.code = StatusBadRequest
                           /\ "status" \notin DOMAIN resp.body

\* a well-formed body with a non-positive term, answered, with the service configured
C8_Witness ==
    /\ InvalidInput
    /\ Responded
    /\ Configured
    /\ req.body.json
    /\ "term_months" \in DOMAIN req.body.fields
    /\ req.body.fields.term_months <= 0
    /\ req.body.fields.loan_amount > 0
    /\ req.body.fields.national_id # ""

(* C9: when SALARY_API_URL or CREDIT_API_URL is unset, a valid request is  *)
(* answered HTTP 500 with error "config_error" and the request's           *)
(* correlation id, with zero salary and zero credit attempts.              *)
C9_ConfigErrorBeforeCalls ==
    (ValidInput /\ ~Configured)
        => /\ calls = <<>>
           /\ pc \in {"received", "done"}
           /\ Responded
                => /\ resp.code = StatusInternalServerError
                   /\ resp.body.error = "config_error"
                   /\ resp.body.request_id = resp.headers["X-Request-ID"]
                   /\ resp.body.request_id =
                         (IF req.header # "" THEN req.header ELSE reqID)
                   /\ req.header = "" => resp.body.request_id \in ClockIDs

\* only the credit URL is unset and the client sent its own correlation id
C9_Witness ==
    /\ ValidInput
    /\ env.SALARY_API_URL # ""
    /\ env.CREDIT_API_URL = ""
    /\ req.header # ""
    /\ Responded

(* C10: when both facts are resolved, the reasons list holds exactly the   *)
(* reasons of the rules whose condition is true (salary < 3*payment,       *)
(* creditScore < 600, activeDefaults > 0, activeLoans > 3), each once, in  *)
(* declaration order, all four always checked; the outcome is APPROVED if  *)
(* and only if the list is empty, and DECLINED otherwise.                  *)
C10_ReasonsAreViolatedRulesInOrder ==
    (Responded /\ BothResolved)
        => /\ ResponseReasons = ExpectedReasons
           /\ IsBusiness("APPROVED") <=> ExpectedReasons = <<>>
           /\ IsBusiness("DECLINED") <=> ExpectedReasons # <<>>

\* a decline in which the score rule and the defaults rule both fire
C10_Witness ==
    /\ Responded
    /\ BothResolved
    /\ Len(ResponseReasons) >= 2
    /\ RuleViolated(RuleReasons[2])
    /\ RuleViolated(RuleReasons[3])

-----------------------------------------------------------------------------
(* C11: in every business response, status DECLINED comes with a non-empty *)
(* reasons list whose first element equals the reason field, and status    *)
(* APPROVED comes with no reason and no reasons; this covers rule-based    *)
(* declines and both partial declines.                                     *)
C11_ReasonIsFirstReason ==
    /\ IsBusiness("DECLINED")
          => /\ {"reason", "reasons"} \subseteq DOMAIN resp.body
             /\ Len(resp.body.reasons) >= 1
             /\ resp.body.reasons[1] = resp.body.reason
    /\ IsBusiness("APPROVED")
          => DOMAIN resp.body \cap {"reason", "reasons"} = {}

\* a rule-based decline that carries more than one reason
C11_Witness ==
    /\ IsBusiness("DECLINED")
    /\ Len(ResponseReasons) >= 2

\* the correlation id of the request: the client's when it sent a non-empty
\* one, else the one the handler generated
CorrelationID == IF req.header # "" THEN req.header ELSE reqID

(* C12: the correlation id of a request equals the client-supplied         *)
(* X-Request-ID when that header is present and non-empty, otherwise a     *)
(* server-generated value; every outbound upstream attempt of the request  *)
(* (all retries, salary and credit) carries exactly that id.               *)
C12_CorrelationIdPropagated ==
    /\ (req.method = "POST" /\ pc # "received")
          => /\ reqID = CorrelationID
             /\ req.header = "" => reqID \in ClockIDs
    /\ \A k \in 1 .. Len(calls) : calls[k].reqID = CorrelationID

\* a client-supplied id carried by retried salary attempts and a credit attempt
C12_Witness ==
    /\ req.header # ""
    /\ Len(CallsTo("salary")) >= 2
    /\ Len(CallsTo("credit")) >= 1
    /\ \A k \in 1 .. Len(calls) : calls[k].reqID = req.header

(* C13: every response the /apply-loan handler writes, whatever its status *)
(* code (200, 400, 405, 500, 502), carries an X-Request-ID header equal to *)
(* the request's correlation id.                                           *)
C13_EveryResponseEchoesId ==
    Responded
        => /\ "X-Request-ID" \in DOMAIN resp.headers
           /\ req.header # "" => resp.headers["X-Request-ID"] = req.header
           /\ req.header = "" => resp.headers["X-Request-ID"] \in ClockIDs

-----------------------------------------------------------------------------
(* Correlation ids of concurrent requests *)

\* The handler variables of the single-request model, at rest
HandlerAtRest ==
    /\ req = [method |-> "POST", header |-> "", body |-> Malformed]
    /\ env = [SALARY_API_URL |-> "", CREDIT_API_URL |-> "", ANNUAL_INTEREST_PERCENT |-> ""]
    /\ pc = "received"
    /\ reqID = ""
    /\ request = ZeroLoanRequest
    /\ annualRate = 0
    /\ i = 0
    /\ err = NilError
    /\ salary = ZeroSalaryResponse
    /\ calls = <<>>
    /\ sleeps = <<>>
    /\ resp = NoResponse

Digits ==
    <<"0", "1", "2", "3", "4", "5", "6", "7", "8", "9", "a", "b", "c", "d", "e", "f",
      "g", "h", "i", "j", "k", "l", "m", "n", "o", "p", "q", "r", "s", "t", "u", "v",
      "w", "x", "y", "z">>

\* strconv.FormatInt(n, base) for n >= 0
RECURSIVE FormatInt(_, _)
FormatInt(n, base) ==
    IF n < base THEN Digits[n + 1]
    ELSE FormatInt(n \div base, base) \o Digits[(n % base) + 1]

Reqs == 1 .. NumRequests

Waiting == [phase |-> "waiting", header |-> "", id |-> ""]

InitConcurrent ==
    /\ HandlerAtRest
    /\ ctx = LiveContext
    /\ engine = IdleEngine
    /\ clock = 0
    /\ inflight = [r \in Reqs |-> Waiting]

\* time passes: the next time.Now() reads a later instant
Tick ==
    /\ clock < MaxClock
    /\ clock' = clock + 1
    /\ UNCHANGED <<inflight, ctx, engine>>
    /\ UNCHANGED handlerVars

\* the server starts loanHandler for request r on its own goroutine, and the
\* handler obtains its correlation id from the header h and the clock
Arrive(r, h) ==
    /\ inflight[r].phase = "waiting"
    /\ inflight' = [inflight EXCEPT ![r] =
            [phase |-> "running", header |-> h,
             id |-> getOrCreateReqID([header |-> h], FormatInt(clock, 36))]]
    /\ UNCHANGED <<clock, ctx, engine>>
    /\ UNCHANGED handlerVars

\* loanHandler returns for request r
Finish(r) ==
    /\ inflight[r].phase = "running"
    /\ inflight' = [inflight EXCEPT ![r].phase = "finished"]
    /\ UNCHANGED <<clock, ctx, engine>>
    /\ UNCHANGED handlerVars

NextConcurrent ==
    \/ Tick
    \/ \E r \in Reqs, h \in RequestIDHeaders : Arrive(r, h)
    \/ \E r \in Reqs : Finish(r)

SpecConcurrent == InitConcurrent /\ [][NextConcurrent]_vars

(* C14: correlation-id generation is collision-resistant under concurrent  *)
(* invocation: two concurrently in-flight requests that supply no          *)
(* X-Request-ID never receive the same server-generated correlation id.    *)
C14_GeneratedIdsDistinct ==
    \A r1, r2 \in Reqs :
        (/\ r1 # r2
         /\ inflight[r1].phase = "running" /\ inflight[r2].phase = "running"
         /\ inflight[r1].header = "" /\ inflight[r2].header = "")
            => inflight[r1].id # inflight[r2].id

-----------------------------------------------------------------------------
(* Cancellation of the inbound request *)

\* The client disconnects or the request's deadline passes: r.Context() is
\* done from here on.  loanHandler, withRetrySalary, withRetryCredit and the
\* upstream requests (http.NewRequest, no context) never read it.
CancelRequest ==
    /\ ~ctx.done
    /\ pc # "done"
    /\ ctx' = [done |-> TRUE,
               callsBefore |-> Len(calls),
               betweenAttempts |-> (pc \in {"salary", "credit"} /\ i >= 1)]
    /\ UNCHANGED <<clock, inflight, engine>>
    /\ UNCHANGED handlerVars

\* a valid request to a configured service, at the default rate
InitCancel ==
    /\ Init
    /\ ValidInput
    /\ Configured
    /\ env.ANNUAL_INTEREST_PERCENT = ""

NextCancel ==
    \/ HandleRequest
    \/ \E reply \in SalaryReplies : SalaryAttempt(reply)
    \/ \E reply \in CreditReplies : CreditAttempt(reply)
    \/ CancelRequest

SpecCancel == InitCancel /\ [][NextCancel]_vars

(* C15: if the inbound request's context is cancelled or its deadline is   *)
(* exceeded while a retry loop is running, the loop is abandoned at the    *)
(* next check between attempts: once the cancellation is observable        *)
(* between two attempts, no further upstream attempt is issued.            *)
C15_NoAttemptAfterCancel ==
    (ctx.done /\ ctx.betweenAttempts) => Len(calls) = ctx.callsBefore

-----------------------------------------------------------------------------
\* the delays taken in the retry loop of one dependency
SleepsOf(dep) == SelectSeq(sleeps, LAMBDA z : z.dep = dep)

\* the retry loop of dep ran all its attempts and every one failed
AllAttemptsFailed(dep) ==
    /\ Responded
    /\ Len(CallsTo(dep)) = attempts
    /\ \A k \in 1 .. attempts : Outcome(CallsTo(dep)[k].reply) # "Success"

(* C16: in a retry loop where all 3 attempts fail, the fixed 250 ms delay  *)
(* is taken exactly attempts-1 = 2 times, only between consecutive         *)
(* attempts: no delay is taken after the final attempt before the failure  *)
(* is returned.                                                            *)
C16_DelayOnlyBetweenAttempts ==
    \A d \in Deps :
        AllAttemptsFailed(d)
            => /\ Len(SleepsOf(d)) = attempts - 1
               /\ \A k \in 1 .. Len(SleepsOf(d)) : SleepsOf(d)[k].ms = 250

-----------------------------------------------------------------------------
(* Termination *)

\* Every attempt returns or times out (httpClient has a 5 s timeout) and the
\* handler's goroutine keeps being scheduled: a step that can be taken is
\* eventually taken.
FairSpec == Spec /\ WF_vars(Next)

ResponseCodes ==
    {StatusOK, StatusBadRequest, StatusMethodNotAllowed,
     StatusInternalServerError, StatusBadGateway}

(* C17: every request eventually reaches a terminal state and writes       *)
(* exactly one response, whatever the upstreams answer, provided each      *)
(* attempt returns or times out; the handler makes at most 3 salary and 3  *)
(* credit attempts, and the response once written does not change.        *)
C17_EveryRequestAnswered ==
    /\ <>Responded
    /\ [](/\ Len(CallsTo("salary")) <= 3
          /\ Len(CallsTo("credit")) <= 3
          /\ Responded <=> resp # NoResponse
          /\ Responded => resp.code \in ResponseCodes)
    /\ [][Responded => resp' = resp]_vars

\* a request answered after the most attempts a request can make
C17_Witness ==
    /\ Responded
    /\ Len(CallsTo("salary")) = 3
    /\ Len(CallsTo("credit")) = 3

-----------------------------------------------------------------------------
(* C18: every APPROVED or DECLINED response, the partial declines          *)
(* included, carries the computed monthly_payment and the                   *)
(* annual_interest_percent in its body, for every valid application and    *)
(* every configured rate, 0 included; the infrastructure-error responses   *)
(* carry neither.                                                          *)
C18_DecisionCarriesPaymentAndRate ==
    /\ (ValidInput /\ (IsBusiness("APPROVED") \/ IsBusiness("DECLINED")))
           => /\ "monthly_payment" \in DOMAIN resp.body
              /\ resp.body.monthly_payment = RequestedPayment
              /\ "annual_interest_percent" \in DOMAIN resp.body
              /\ resp.body.annual_interest_percent = RateInForce
    /\ (Responded /\ "status" \notin DOMAIN resp.body)
           => /\ "monthly_payment" \notin DOMAIN resp.body
              /\ "annual_interest_percent" \notin DOMAIN resp.body

-----------------------------------------------------------------------------
\* a reply with status 200 whose body does not parse
MalformedOK(reply) ==
    /\ reply.kind = "response"
    /\ reply.StatusCode = StatusOK
    /\ ~reply.body.json

(* C19: a salary or credit reply with status 200 and a malformed body is   *)
(* not a success: the attempt is retried while fewer than 3 attempts were  *)
(* made, never more than 3 are made, and a call whose last attempt (so     *)
(* also one whose every attempt) is malformed ends the request with HTTP   *)
(* 502 naming the dependency, with no status, reason or reasons.           *)
C19_MalformedBodyIsUnavailable ==
    \A d \in Deps :
        LET cs == CallsTo(d) IN
        /\ Len(cs) <= attempts
        /\ \A k \in 1 .. Len(cs) :
               (Responded /\ MalformedOK(cs[k].reply) /\ k < attempts) => Len(cs) > k
        /\ (Responded /\ cs # <<>> /\ MalformedOK(Last(cs).reply))
               => /\ Len(cs) = attempts
                  /\ resp.code = StatusBadGateway
                  /\ resp.body.error = ServiceUnavailable(d)
                  /\ DOMAIN resp.body \cap {"status", "reason", "reasons"} = {}

\* the salary service answered 200 with a malformed body three times
C19_Witness ==
    /\ Responded
    /\ Len(CallsTo("salary")) = attempts
    /\ \A k \in 1 .. attempts : MalformedOK(CallsTo("salary")[k].reply)
    /\ resp.code = StatusBadGateway

-----------------------------------------------------------------------------
(* The decision rules as a function of the facts *)

Payments ==
    {amortizedMonthlyPayment(MaxAmount, n, rate) : n \in 1 .. MaxTerm, rate \in {0, defaultAnnualRate}}

SalaryFacts == {[NationalID |-> "12345678", MonthlySalary |-> m] : m \in Salaries}

CreditFacts ==
    {[NationalID |-> "12345678", CreditScore |-> sc, ActiveDefaults |-> d, ActiveLoans |-> l] :
        sc \in CreditScores, d \in DefaultCounts, l \in LoanCounts}

InitEngine ==
    /\ HandlerAtRest
    /\ ctx = LiveContext
    /\ clock = 0
    /\ inflight = NoneInFlight
    /\ engine \in [stage : {"facts"}, salary : SalaryFacts, credit : CreditFacts,
                   monthly : Payments, reasons : {<<>>}, prev : {<<>>}]

\* the rules of loanHandler applied to the facts
Decide ==
    /\ engine.stage = "facts"
    /\ engine' = [engine EXCEPT
                     !.stage = "decided",
                     !.reasons = DecisionReasons(engine.salary, engine.credit, engine.monthly)]
    /\ UNCHANGED <<ctx, clock, inflight>>
    /\ UNCHANGED handlerVars

\* the same facts with activeDefaults 1 instead of 0, decided again
RaiseDefaults ==
    /\ engine.stage = "decided"
    /\ engine.credit.ActiveDefaults = 0
    /\ LET cred == [engine.credit EXCEPT !.ActiveDefaults = 1] IN
       engine' = [engine EXCEPT
                     !.stage = "raised",
                     !.credit = cred,
                     !.prev = engine.reasons,
                     !.reasons = DecisionReasons(engine.salary, cred, engine.monthly)]
    /\ UNCHANGED <<ctx, clock, inflight>>
    /\ UNCHANGED handlerVars

NextEngine == Decide \/ RaiseDefaults

SpecEngine == InitEngine /\ [][NextEngine]_vars

(* C20: with every other fact and the payment fixed, changing              *)
(* activeDefaults from 0 to 1 removes and reorders no reason (the new list *)
(* without "Active defaults present" is the previous list), and when all   *)
(* rules passed before, the new list is the previous list plus "Active     *)
(* defaults present".                                                      *)
C20_DefaultsOnlyAddReason ==
    engine.stage = "raised"
        => /\ SelectSeq(engine.reasons, LAMBDA r : r # "Active defaults present")
                  = engine.prev
           /\ engine.prev = <<>>
                  => engine.reasons = engine.prev \o <<"Active defaults present">>

\* all rules passed, then the defaults were raised
C20_Witness ==
    /\ engine.stage = "raised"
    /\ engine.prev = <<>>
    /\ engine.reasons = <<"Active defaults present">>

-----------------------------------------------------------------------------
(* C24: validation comes before configuration: a POST that is invalid      *)
(* (unparsable body, empty national_id, non-positive amount or term) is    *)
(* answered HTTP 400 even when SALARY_API_URL or CREDIT_API_URL is unset,  *)
(* and HTTP 500 config_error is answered only to a request that passed     *)
(* validation, when one of the two URLs is unset.                          *)
C24_ValidationBeforeConfig ==
    /\ (Responded /\ InvalidInput /\ ~Configured)
           => /\ resp.code = StatusBadRequest
              /\ resp.body.plain \in {"Invalid request body", "Missing or invalid fields"}
    /\ (Responded /\ resp.code = StatusInternalServerError)
           => /\ ValidInput
              /\ ~Configured
              /\ resp.body.error = "config_error"

\* an invalid POST answered while a URL is unset
C24_Witness ==
    /\ Responded
    /\ InvalidInput
    /\ env.SALARY_API_URL = ""
    /\ resp.code = StatusBadRequest

-----------------------------------------------------------------------------
(* amortizedMonthlyPayment as a function of its arguments *)

\* arguments of every sign, at every rate
AmortArgs ==
    [loanAmount : {-1, 0, 1, 7, MaxAmount}, termMonths : Terms,
     annualInterestPercent : {0, defaultAnnualRate, 120}]

\* larger principals and terms, at the zero rate
StraightLineArgs ==
    [loanAmount : {1, 7, 100, 12000}, termMonths : {1, 3, 7, 8, 12},
     annualInterestPercent : {0}]

InitAmort ==
    /\ HandlerAtRest
    /\ ctx = LiveContext
    /\ clock = 0
    /\ inflight = NoneInFlight
    /\ engine \in [stage : {"args"}, args : AmortArgs \cup StraightLineArgs, payment : {0}]

\* one call of amortizedMonthlyPayment
Amortize ==
    /\ engine.stage = "args"
    /\ engine' = [engine EXCEPT
                     !.stage = "paid",
                     !.payment = amortizedMonthlyPayment(engine.args.loanAmount,
                                                         engine.args.termMonths,
                                                         engine.args.annualInterestPercent)]
    /\ UNCHANGED <<ctx, clock, inflight>>
    /\ UNCHANGED handlerVars

NextAmort == Amortize

SpecAmort == InitAmort /\ [][NextAmort]_vars

\* c hundredths is p/n rounded to 2 decimals, a half rounded up
IsRoundedQuotient(c, p, n) ==
    /\ 2 * (c * n - 100 * p) <= n
    /\ 2 * (100 * p - c * n) < n

(* C23: amortizedMonthlyPayment returns 0 whenever principal <= 0 or       *)
(* termMonths <= 0, at every rate; at the zero rate with positive          *)
(* principal and term it returns principal/termMonths rounded to 2         *)
(* decimals, and payment(12000, 12, 0) = 1000.00.                          *)
C23_ZeroAndStraightLine ==
    engine.stage = "paid"
        => LET a == engine.args IN
           /\ (a.loanAmount <= 0 \/ a.termMonths <= 0) => engine.payment = 0
           /\ (a.annualInterestPercent = 0 /\ a.loanAmount > 0 /\ a.termMonths > 0)
                  => IsRoundedQuotient(engine.payment, a.loanAmount, a.termMonths)
           /\ a = [loanAmount |-> 12000, termMonths |-> 12, annualInterestPercent |-> 0]
                  => engine.payment = 100000

\* payment(12000, 12, 0) was computed
C23_Witness ==
    /\ engine.stage = "paid"
    /\ engine.args = [loanAmount |-> 12000, termMonths |-> 12, annualInterestPercent |-> 0]
    /\ engine.payment = 100000

-----------------------------------------------------------------------------
(* Two requests in flight *)

\* net/http runs loanHandler in one goroutine per request. The handler
\* variables hold the locals of the goroutine that is running; inflight keeps
\* the locals of the others. env and httpClient belong to the process.
Goroutines == {"g1", "g2"}

Locals ==
    [req |-> req, pc |-> pc, reqID |-> reqID, request |-> request,
     annualRate |-> annualRate, i |-> i, err |-> err, salary |-> salary,
     calls |-> calls, sleeps |-> sleeps, resp |-> resp]

\* the locals of loanHandler entered with the inbound request r
FreshLocals(r) ==
    [req |-> r, pc |-> "received", reqID |-> "", request |-> ZeroLoanRequest,
     annualRate |-> 0, i |-> 0, err |-> NilError, salary |-> ZeroSalaryResponse,
     calls |-> <<>>, sleeps |-> <<>>, resp |-> NoResponse]

OnCPU == [state |-> "running"]
Parked(l) == [state |-> "parked", locals |-> l]

Running == CHOOSE g \in Goroutines : inflight[g].state = "running"

LocalsOf(g) == IF inflight[g].state = "running" THEN Locals ELSE inflight[g].locals

PairBodies ==
    {Malformed,
     JsonObject([national_id |-> "12345678", loan_amount |-> MaxAmount, term_months |-> 1]),
     JsonObject([national_id |-> "12345678", loan_amount |-> MaxAmount, term_months |-> MaxTerm])}

PairRequests == [method : {"POST"}, header : RequestIDHeaders, body : PairBodies]

PairEnv ==
    [SALARY_API_URL |-> "http://salary", CREDIT_API_URL |-> "http://credit",
     ANNUAL_INTEREST_PERCENT |-> ""]

PairSalaryReplies ==
    {Answer(StatusNotFound, Malformed)}
    \cup {Answer(StatusOK, JsonObject([national_id |-> "12345678", monthly_salary |-> m])) :
            m \in Salaries}

PairCreditReplies ==
    {NoAnswer,
     Answer(StatusOK, JsonObject([national_id |-> "12345678", credit_score |-> minCreditScore,
                                  active_defaults |-> 0, active_loans |-> maxActiveLoans]))}

InitPair ==
    /\ ctx = LiveContext
    /\ clock = 0
    /\ engine = IdleEngine
    /\ env = PairEnv
    /\ \E r1 \in PairRequests, r2 \in PairRequests :
        /\ req = r1
        /\ inflight = [g \in Goroutines |->
                          IF g = "g1" THEN OnCPU ELSE Parked(FreshLocals(r2))]
    /\ pc = "received"
    /\ reqID = ""
    /\ request = ZeroLoanRequest
    /\ annualRate = 0
    /\ i = 0
    /\ err = NilError
    /\ salary = ZeroSalaryResponse
    /\ calls = <<>>
    /\ sleeps = <<>>
    /\ resp = NoResponse


\* a context switch that leaves `salary` where it is, as a package-level
\* variable would be
Switch_SharedSalary(g) ==
    /\ inflight[g].state = "parked"
    /\ LET l == inflight[g].locals IN
        /\ req' = l.req
        /\ pc' = l.pc
        /\ reqID' = l.reqID
        /\ request' = l.request
        /\ annualRate' = l.annualRate
        /\ i' = l.i
        /\ err' = l.err
        /\ salary' = salary
        /\ calls' = l.calls
        /\ sleeps' = l.sleeps
        /\ resp' = l.resp
    /\ inflight' = [inflight EXCEPT ![Running] = Parked(Locals), ![g] = OnCPU]
    /\ UNCHANGED <<env, ctx, clock, engine>>

\* the scheduler takes the running goroutine off and puts g on: every local
\* of loanHandler goes with its goroutine
Switch(g) ==
    /\ inflight[g].state = "parked"
    /\ LET l == inflight[g].locals IN
        /\ req' = l.req
        /\ pc' = l.pc
        /\ reqID' = l.reqID
        /\ request' = l.request
        /\ annualRate' = l.annualRate
        /\ i' = l.i
        /\ err' = l.err
        /\ salary' = l.salary
        /\ calls' = l.calls
        /\ sleeps' = l.sleeps
        /\ resp' = l.resp
    /\ inflight' = [inflight EXCEPT ![Running] = Parked(Locals), ![g] = OnCPU]
    /\ UNCHANGED <<env, ctx, clock, engine>>

NextPair ==
    \/ HandleRequest
    \/ \E reply \in PairSalaryReplies : SalaryAttempt(reply)
    \/ \E reply \in PairCreditReplies : CreditAttempt(reply)
    \/ \E g \in Goroutines : Switch(g)

SpecPair == InitPair /\ [][NextPair]_vars

\* withRetrySalary / withRetryCredit run to its return, fn() returning
\* results[1], results[2], ... in turn, from loop counter iter on
RECURSIVE withRetry(_, _, _)
withRetry(results, zero, iter) ==
    LET st == withRetryStep(iter, results[iter + 1], zero)
    IN  IF st.returned \/ st.i >= Len(results) THEN st ELSE withRetry(results, zero, st.i)

\* loanHandler run from entry to return with nothing else running: the
\* response to the inbound request r under the environment e, the clock
\* reading `now`, and the upstreams answering salaryReplies and creditReplies
AloneResponse(r, e, now, salaryReplies, creditReplies) ==
    LET id == getOrCreateReqID(r, now)
        headers == SetHeader(NoKeys, "X-Request-ID", id)
        dec == Decode(r.body, ZeroLoanRequest)
        rate == ConfiguredRate(e.ANNUAL_INTEREST_PERCENT)
        sal == withRetry([k \in 1 .. Len(salaryReplies) |-> callSalaryAPI(salaryReplies[k])],
                         ZeroSalaryResponse, 0)
        cred == withRetry([k \in 1 .. Len(creditReplies) |-> callCreditAPI(creditReplies[k])],
                          ZeroCreditResponse, 0)
    IN  IF r.method # "POST"
        THEN httpErrorResponse(NoKeys, "Only POST requests allowed", StatusMethodNotAllowed)
        ELSE IF dec.err # NilError
        THEN httpErrorResponse(headers, "Invalid request body", StatusBadRequest)
        ELSE IF InvalidFields(dec.v)
        THEN httpErrorResponse(headers, "Missing or invalid fields", StatusBadRequest)
        ELSE IF ConfigMissing(e.SALARY_API_URL, e.CREDIT_API_URL)
        THEN JsonResponse(headers, StatusInternalServerError,
                 [error |-> "config_error",
                  message |-> "Service URLs not configured",
                  request_id |-> id])
        ELSE IF CallFailed(sal.err)
        THEN SalaryFailureResponse(headers, sal.err, dec.v, rate, id)
        ELSE IF CallFailed(cred.err)
        THEN CreditFailureResponse(headers, cred.err, dec.v, rate, id, sal.v)
        ELSE DecisionResponse(headers, dec.v, rate, sal.v, cred.v)

\* the replies one request got from dep, in order
RepliesFrom(l, dep) ==
    LET cs == SelectSeq(l.calls, LAMBDA c : c.dep = dep)
    IN  [k \in 1 .. Len(cs) |-> cs[k].reply]

\* the response a request with the locals l gets when handled alone with
\* the same input and the same upstream replies
ResponseAlone(l) ==
    AloneResponse(l.req, env, CHOOSE now \in ClockIDs : TRUE,
                  RepliesFrom(l, "salary"), RepliesFrom(l, "credit"))

\* the single-request handler answers as AloneResponse says
AloneResponseAgrees == Responded => resp = ResponseAlone(Locals)

(* C22: requests handled concurrently share no mutable state: under every  *)
(* interleaving of the two requests in flight, the response of each is the *)
(* one it gets when handled alone with the same input and the same         *)
(* upstream replies.                                                       *)
C22_ConcurrentAsAlone ==
    \A g \in Goroutines :
        LocalsOf(g).pc = "done" => LocalsOf(g).resp = ResponseAlone(LocalsOf(g))

\* both requests answered with a decision, on different salary facts
C22_Witness ==
    /\ \A g \in Goroutines :
        /\ LocalsOf(g).pc = "done"
        /\ "status" \in DOMAIN LocalsOf(g).resp.body
        /\ "credit" \in DOMAIN LocalsOf(g).resp.body
    /\ LocalsOf("g1").salary.MonthlySalary = 1
    /\ LocalsOf("g2").salary.MonthlySalary = 100
    /\ LocalsOf("g1").resp.body.status # LocalsOf("g2").resp.body.status

-----------------------------------------------------------------------------
\* every upstream answered the same identity the same way in every attempt
\* of the two requests
StableUpstream ==
    LET all == LocalsOf("g1").calls \o LocalsOf("g2").calls IN
    \A a \in 1 .. Len(all), b \in 1 .. Len(all) :
        (all[a].dep = all[b].dep /\ all[a].body = all[b].body)
            => all[a].reply = all[b].reply

\* what a response decides: its code and its body without the correlation id
DecisionOf(response) ==
    [code |-> response.code,
     body |-> [k \in DOMAIN response.body \ {"request_id"} |-> response.body[k]]]

(* C21: the same LoanApplication issued twice against an upstream that     *)
(* answers each identity the same way every time gets the same status,     *)
(* reasons, monthly_payment and echoed facts (the same code and body),     *)
(* whatever the two correlation ids are.                                   *)
C21_SameApplicationSameDecision ==
    LET a == LocalsOf("g1")
        b == LocalsOf("g2")
    IN  (a.pc = "done" /\ b.pc = "done" /\ a.req.body = b.req.body /\ StableUpstream)
            => DecisionOf(a.resp) = DecisionOf(b.resp)

\* the same valid application decided twice under different correlation
\* ids, the upstreams having answered both the same way
C21_Witness ==
    LET a == LocalsOf("g1")
        b == LocalsOf("g2")
    IN  /\ a.pc = "done" /\ b.pc = "done"
        /\ a.req.body = b.req.body
        /\ a.req.body.json
        /\ a.reqID # b.reqID
        /\ StableUpstream
        /\ Len(SelectSeq(a.calls, LAMBDA c : c.dep = "credit")) > 0
        /\ Len(SelectSeq(b.calls, LAMBDA c : c.dep = "credit")) > 0
        /\ "status" \in DOMAIN a.resp.body
        /\ a.resp.body.status = "APPROVED"
        /\ b.resp.body.status = "APPROVED"

====
